---- MODULE Spec2Model ----
(***************************************************************************)
(* Visitor ledger and event dispatch of the two Bluetooth scanner scripts  *)
(* (scan-bluetooth-device.py: SimpleBluetoothScanner, and                  *)
(* bluetooth_scanner_raspberrypi.py: BluetoothScannerRaspberryPi).         *)
(*                                                                         *)
(* Time is counted in seconds.  The persistent store is the pair           *)
(* (db, detections): the devices table keyed by mac_hash and the           *)
(* detections table in insertion order.  sent_events, scan_count and the   *)
(* position of the scan loop are process-local and lost on restart.        *)
(***************************************************************************)
EXTENDS Integers, Sequences, FiniteSets, TLC

VARIABLES
    variant,      \* which script runs: "simple" or "rpi"
    now,          \* wall clock, seconds
    ticks,        \* scan cycles completed since the model started
    db,           \* devices table: mac_hash -> row
    detections,   \* detections table, in insertion order
    sent_events,  \* self.sent_events: mac_hash -> [new_sent, return_sent]
    scan_count,   \* self.scan_count
    pc,           \* position of the scan loop
    cur,          \* the sample being processed and the locals around it
    posts,        \* requests.post calls of this process, with their outcome
    samples,      \* samples handed to save_to_database so far
    failures,     \* storage errors and unacknowledged requests so far
    restarts,     \* process restarts so far
    callers,      \* concurrent save_to_database calls: their locals
    db_lock,      \* holder of the SQLite write lock, or "free"
    scan,         \* the scan path of the cycle being read and what it reported
    observed,     \* the result of the last statistics query, if any
    calc          \* the last distance computation, if any

vars == << variant, now, ticks, db, detections, sent_events, scan_count,
           pc, cur, posts, samples,
           failures, restarts, callers, db_lock, scan, observed, calc >>

----------------------------------------------------------------------------
(* Bounds of the model *)

MaxSamples == 3
MaxTicks == 2
MaxFailures == 2
MaxRestarts == 1

Macs == {"AA:AA", "BB:BB"}

----------------------------------------------------------------------------
(* Display names and the keyword classifier *)

SimplePhoneKeywords ==
    << <<"i", "p", "h", "o", "n", "e">>,
       <<"g", "a", "l", "a", "x", "y">>,
       <<"p", "i", "x", "e", "l">>,
       <<"x", "i", "a", "o", "m", "i">>,
       <<"s", "a", "m", "s", "u", "n", "g">>,
       <<"h", "u", "a", "w", "e", "i">>,
       <<"o", "p", "p", "o">>,
       <<"v", "i", "v", "o">>,
       <<"o", "n", "e", "p", "l", "u", "s">>,
       <<"p", "h", "o", "n", "e">> >>

SimpleAudioKeywords ==
    << <<"a", "i", "r", "p", "o", "d", "s">>,
       <<"h", "e", "a", "d", "p", "h", "o", "n", "e">>,
       <<"s", "p", "e", "a", "k", "e", "r">>,
       <<"b", "u", "d", "s">>,
       <<"a", "u", "d", "i", "o">>,
       <<"b", "e", "a", "t", "s">> >>

SimpleComputerKeywords ==
    << <<"m", "a", "c", "b", "o", "o", "k">>,
       <<"l", "a", "p", "t", "o", "p">>,
       <<"p", "c">>,
       <<"d", "e", "s", "k", "t", "o", "p">> >>

SimpleWatchKeywords ==
    << <<"w", "a", "t", "c", "h">>,
       <<"b", "a", "n", "d">>,
       <<"f", "i", "t", "b", "i", "t">> >>

RpiPhoneKeywords ==
    << <<"i", "p", "h", "o", "n", "e">>,
       <<"g", "a", "l", "a", "x", "y">>,
       <<"p", "i", "x", "e", "l">>,
       <<"x", "i", "a", "o", "m", "i">>,
       <<"s", "a", "m", "s", "u", "n", "g">>,
       <<"h", "u", "a", "w", "e", "i">>,
       <<"o", "p", "p", "o">>,
       <<"v", "i", "v", "o">>,
       <<"o", "n", "e", "p", "l", "u", "s">>,
       <<"p", "h", "o", "n", "e">>,
       <<"r", "e", "d", "m", "i">>,
       <<"r", "e", "a", "l", "m", "e">>,
       <<"n", "o", "k", "i", "a">> >>

RpiAudioKeywords ==
    << <<"a", "i", "r", "p", "o", "d", "s">>,
       <<"h", "e", "a", "d", "p", "h", "o", "n", "e">>,
       <<"s", "p", "e", "a", "k", "e", "r">>,
       <<"b", "u", "d", "s">>,
       <<"a", "u", "d", "i", "o">>,
       <<"b", "e", "a", "t", "s">>,
       <<"s", "o", "u", "n", "d", "c", "o", "r", "e">>,
       <<"j", "b", "l">> >>

RpiComputerKeywords ==
    << <<"m", "a", "c", "b", "o", "o", "k">>,
       <<"l", "a", "p", "t", "o", "p">>,
       <<"p", "c">>,
       <<"d", "e", "s", "k", "t", "o", "p">>,
       <<"c", "o", "m", "p", "u", "t", "e", "r">> >>

RpiWatchKeywords ==
    << <<"w", "a", "t", "c", "h">>,
       <<"b", "a", "n", "d">>,
       <<"f", "i", "t", "b", "i", "t">>,
       <<"a", "m", "a", "z", "f", "i", "t">>,
       <<"g", "a", "r", "m", "i", "n">> >>

RpiTvKeywords ==
    << <<"t", "v">>,
       <<"t", "e", "l", "e", "v", "i", "s", "i", "o", "n">>,
       <<"c", "h", "r", "o", "m", "e", "c", "a", "s", "t">>,
       <<"f", "i", "r", "e", " ", "s", "t", "i", "c", "k">> >>

RpiCarKeywords ==
    << <<"c", "a", "r">>,
       <<"t", "o", "y", "o", "t", "a">>,
       <<"h", "o", "n", "d", "a">>,
       <<"f", "o", "r", "d">>,
       <<"b", "m", "w">>,
       <<"a", "u", "d", "i">> >>

NameIPhone == <<"i", "P", "h", "o", "n", "e">>

NameHolyIOT == <<"H", "O", "L", "Y", "-", "I", "O", "T">>

HolyIOTExact == <<"H", "o", "l", "y", "-", "I", "O", "T">>

HolyIOTLower == <<"h", "o", "l", "y", "-", "i", "o", "t">>

Names == {NameIPhone, NameHolyIOT}

NameEmpty == << >>

NameIPhoneUpper == << "I", "P", "H", "O", "N", "E", " ", "1", "5" >>

NameGalaxyBuds == << "G", "a", "l", "a", "x", "y", " ", "B", "u", "d", "s" >>

NameHeadphone == << "J", "B", "L", " ", "H", "e", "a", "d", "p", "h", "o", "n", "e" >>

NamePcSpeaker == << "P", "C", " ", "S", "p", "e", "a", "k", "e", "r" >>

NameMacBook == << "M", "a", "c", "B", "o", "o", "k", " ", "P", "r", "o" >>

NameMiBand == << "M", "i", " ", "B", "a", "n", "d" >>

NameSmartTv == << "S", "m", "a", "r", "t", " ", "T", "V" >>

NameCarAudio == << "C", "a", "r", " ", "A", "u", "d", "i", "o" >>

NameAudi == << "A", "U", "D", "I", " ", "A", "4" >>

NameAudiLower == << "a", "u", "d", "i", " ", "a", "4" >>

NameUnknown == << "U", "n", "k", "n", "o", "w", "n", " ", "D", "e", "v", "i", "c", "e" >>

\* display names given to classify_device
ClassifyNames ==
    {NameIPhone, NameHolyIOT, NameEmpty, NameIPhoneUpper, NameGalaxyBuds, NameHeadphone,
     NamePcSpeaker, NameMacBook, NameMiBand, NameSmartTv,
     NameCarAudio, NameAudi, NameAudiLower, NameUnknown}

UpperChars == <<"A","B","C","D","E","F","G","H","I","J","K","L","M",
                "N","O","P","Q","R","S","T","U","V","W","X","Y","Z">>

LowerChars == <<"a","b","c","d","e","f","g","h","i","j","k","l","m",
                "n","o","p","q","r","s","t","u","v","w","x","y","z">>

LowerChar(c) ==
    IF \E i \in 1..Len(UpperChars) : UpperChars[i] = c
    THEN LowerChars[CHOOSE i \in 1..Len(UpperChars) : UpperChars[i] = c]
    ELSE c

\* str.lower()
Lower(s) == [i \in 1..Len(s) |-> LowerChar(s[i])]

\* kw in s
Contains(s, kw) ==
    \E i \in 1..(Len(s) - Len(kw) + 1) : SubSeq(s, i, i + Len(kw) - 1) = kw

\* any(k in name_lower for k in keywords)
AnyIn(keywords, name_lower) ==
    \E i \in 1..Len(keywords) : Contains(name_lower, keywords[i])

TypePhone == "phone"
TypeAudio == "audio"
TypeComputer == "computer"
TypeWatch == "watch"
TypeTv == "tv"
TypeCar == "car"
TypeOther == "other"

SimpleClassify(name) ==
    LET name_lower == Lower(name) IN
    IF AnyIn(SimplePhoneKeywords, name_lower) THEN TypePhone
    ELSE IF AnyIn(SimpleAudioKeywords, name_lower) THEN TypeAudio
    ELSE IF AnyIn(SimpleComputerKeywords, name_lower) THEN TypeComputer
    ELSE IF AnyIn(SimpleWatchKeywords, name_lower) THEN TypeWatch
    ELSE TypeOther

RpiClassify(name) ==
    LET name_lower == Lower(name) IN
    IF AnyIn(RpiPhoneKeywords, name_lower) THEN TypePhone
    ELSE IF AnyIn(RpiAudioKeywords, name_lower) THEN TypeAudio
    ELSE IF AnyIn(RpiComputerKeywords, name_lower) THEN TypeComputer
    ELSE IF AnyIn(RpiWatchKeywords, name_lower) THEN TypeWatch
    ELSE IF AnyIn(RpiTvKeywords, name_lower) THEN TypeTv
    ELSE IF AnyIn(RpiCarKeywords, name_lower) THEN TypeCar
    ELSE TypeOther

\* variant of classify_device that tests the audio keywords first
classify_device_audio_first(v, name) ==
    IF AnyIn(IF v = "simple" THEN SimpleAudioKeywords ELSE RpiAudioKeywords,
             Lower(name))
    THEN TypeAudio
    ELSE IF v = "simple" THEN SimpleClassify(name) ELSE RpiClassify(name)

classify_device(v, name) ==
    IF v = "simple" THEN SimpleClassify(name) ELSE RpiClassify(name)

\* variant of IsHolyIOT that matches the exact spelling only
IsHolyIOTExactOnly(name) == Contains(name, HolyIOTExact)

\* "Holy-IOT" in name or "holy-iot" in name.lower()
IsHolyIOT(name) ==
    Contains(name, HolyIOTExact) \/ Contains(Lower(name), HolyIOTLower)

----------------------------------------------------------------------------
(* Identity, distance, timestamps *)

SimpleSalt == "bluetooth_scanner_2024"
RpiSalt == "rpi_bluetooth_scanner_2024"

\* variant of hash_mac_address whose salt is drawn per process run
hash_mac_address_per_run(v, mac) ==
    << "sha256", mac, IF v = "simple" THEN SimpleSalt ELSE RpiSalt, restarts >>

\* sha256(mac + salt).hexdigest()[:16], kept as an uninterpreted digest
hash_mac_address(v, mac) ==
    << "sha256", mac, IF v = "simple" THEN SimpleSalt ELSE RpiSalt >>

MEASURED_POWER == -59

Rssis == {0, -59, -75}

\* (address, name, rssi) lines the scanner tools can report
ScanLines ==
    { <<"AA:AA", NameIPhone, -59>>, <<"BB:BB", NameIPhone, -75>>,
      <<"BB:BB", NameHolyIOT, 0>> }

PATH_LOSS_EXPONENT == 2

\* 10 ** (j / 40) for j = 0 .. 39, in millionths
Pow10Fortieths ==
    << 1000000, 1059254, 1122018, 1188502, 1258925, 1333521, 1412538,
       1496236, 1584893, 1678804, 1778279, 1883649, 1995262, 2113489,
       2238721, 2371374, 2511886, 2660725, 2818383, 2985383, 3162278,
       3349654, 3548134, 3758374, 3981072, 4216965, 4466836, 4731513,
       5011872, 5308844, 5623413, 5956621, 6309573, 6683439, 7079458,
       7498942, 7943282, 8413951, 8912509, 9440609 >>

RECURSIVE PowerOfTen(_)
PowerOfTen(q) == IF q = 0 THEN 1 ELSE 10 * PowerOfTen(q - 1)

\* round(math.pow(10, e), 2) in hundredths, for e = fortieths / 40: the
\* integer part of e shifts the decimal point of the tabulated fraction,
\* and what lies below a hundredth is rounded to the nearest
RoundedPow10(fortieths) ==
    LET q == fortieths \div 40
        t == Pow10Fortieths[(fortieths % 40) + 1]
    IN  IF q >= 4 THEN t * PowerOfTen(q - 4)
        ELSE IF q <= -5 THEN 0
        ELSE (t + (PowerOfTen(4 - q) \div 2)) \div PowerOfTen(4 - q)

\* variant of calculate_distance_for whose sentinel test is rssi >= 0
calculate_distance_for_sentinel_ge(rssi, measured_power, path_loss_exponent) ==
    IF rssi >= 0 THEN -100
    ELSE RoundedPow10(((measured_power - rssi) * 4) \div path_loss_exponent)

\* variant of calculate_distance_for that subtracts the other way round
calculate_distance_for_swapped(rssi, measured_power, path_loss_exponent) ==
    IF rssi = 0 THEN -100
    ELSE RoundedPow10(((rssi - measured_power) * 4) \div path_loss_exponent)

\* calculate_distance in hundredths of a metre; the exponent
\* (measured_power - rssi) / (10 * path_loss_exponent) is counted in
\* fortieths, which is exact for the path-loss exponents 1, 2 and 4
calculate_distance_for(rssi, measured_power, path_loss_exponent) ==
    IF rssi = 0 THEN -100
    ELSE RoundedPow10(((measured_power - rssi) * 4) \div path_loss_exponent)

calculate_distance(rssi) ==
    calculate_distance_for(rssi, MEASURED_POWER, PATH_LOSS_EXPONENT)

AccuracyUnknown == "Khong xac dinh"
AccuracyVeryClose == "Rat gan"
AccuracyClose == "Gan"
AccuracyMedium == "Trung binh"
AccuracyFar == "Xa"

\* the thresholds 0, 1, 3 and 10 metres, in hundredths
get_distance_accuracy(distance) ==
    IF distance < 0 THEN AccuracyUnknown
    ELSE IF distance <= 100 THEN AccuracyVeryClose
    ELSE IF distance <= 300 THEN AccuracyClose
    ELSE IF distance <= 1000 THEN AccuracyMedium
    ELSE AccuracyFar

\* variant of isoformat that formats with minute precision
isoformatMinutes(t) == [minute |-> t \div 60, second |-> 0]

\* datetime.isoformat() / datetime.fromisoformat(), minutes and seconds
isoformat(t) == [minute |-> t \div 60, second |-> t % 60]

fromisoformat(s) == s.minute * 60 + s.second

SIMPLE_RETURN_MINUTES == 15
RPI_RETURN_MINUTES == 1

\* variant of ReturnWindow that reads the constants as hours
ReturnWindowHours(v) ==
    IF v = "simple" THEN SIMPLE_RETURN_MINUTES * 3600
    ELSE RPI_RETURN_MINUTES * 3600

\* timedelta(minutes=...) of the variant, in seconds
ReturnWindow(v) ==
    IF v = "simple" THEN SIMPLE_RETURN_MINUTES * 60 ELSE RPI_RETURN_MINUTES * 60

\* variant of GapExceeds that compares with >=
GapExceedsInclusive(v, current_time, last_seen_str) ==
    current_time - fromisoformat(last_seen_str) >= ReturnWindow(v)

\* current_time - last_seen > timedelta(minutes=...)
GapExceeds(v, current_time, last_seen_str) ==
    current_time - fromisoformat(last_seen_str) > ReturnWindow(v)

\* Clock advances the scanner can see between two samples
Deltas(v) == {30, ReturnWindow(v), ReturnWindow(v) + 1, 20 * 60 - 30}

----------------------------------------------------------------------------
(* State *)

NoSample ==
    [mac |-> "", name |-> << >>, type |-> "", rssi |-> 0, distance |-> 0,
     is_returning |-> FALSE, first_ever |-> FALSE, db_error |-> FALSE]

Outcomes == {"200", "500", "Timeout", "ConnectionError",
             "RequestException", "Exception"}

\* the processes that may call save_to_database on the same database file
Procs == {"p1", "p2"}

\* no scan path is being read
NoScan == [path |-> "none", reported |-> {}, running |-> TRUE]

\* no call in progress
NoCall == [pc |-> "none", line |-> << >>, current_time |-> 0,
           result |-> << >>, new_row |-> << >>, new_log |-> << >>,
           error |-> "", at |-> ""]

Init ==
    /\ variant \in {"simple", "rpi"}
    /\ now = 0
    /\ ticks = 0
    /\ db = << >>
    /\ detections = << >>
    /\ sent_events = << >>
    /\ scan_count = 0
    /\ pc = "idle"
    /\ cur = NoSample
    /\ posts = << >>
    /\ samples = 0
    /\ failures = 0
    /\ restarts = 0
    /\ callers = [p \in Procs |-> NoCall]
    /\ db_lock = "free"
    /\ scan = NoScan
    /\ observed = << >>
    /\ calc = << >>

----------------------------------------------------------------------------
(* save_to_database *)

\* variant of UpdatedRow that starts visit_count again within the window
UpdatedRowRestartsVisits(v, row, name, rssi, distance, current_time) ==
    LET returning == GapExceeds(v, current_time, row.last_seen)
        base == [row EXCEPT !.device_name = name,
                            !.last_seen = isoformat(current_time),
                            !.visit_count = IF returning THEN @ + 1 ELSE 1,
                            !.total_detections = @ + 1]
    IN  IF v = "simple" THEN base
        ELSE [base EXCEPT !.last_rssi = rssi,
                          !.last_distance = distance,
                          !.min_distance =
                              IF distance < row.min_distance
                              THEN distance ELSE row.min_distance]

\* variant of UpdatedRow that counts a detection within the window only
UpdatedRowSkipsTotal(v, row, name, rssi, distance, current_time) ==
    LET returning == GapExceeds(v, current_time, row.last_seen)
        base == [row EXCEPT !.device_name = name,
                            !.last_seen = isoformat(current_time),
                            !.visit_count = IF returning THEN @ + 1 ELSE @,
                            !.total_detections =
                                IF returning THEN @ ELSE @ + 1]
    IN  IF v = "simple" THEN base
        ELSE [base EXCEPT !.last_rssi = rssi,
                          !.last_distance = distance,
                          !.min_distance =
                              IF distance < row.min_distance
                              THEN distance ELSE row.min_distance]

\* variant of UpdatedRow that refreshes last_seen on a new visit only
UpdatedRowStaleLastSeen(v, row, name, rssi, distance, current_time) ==
    LET returning == GapExceeds(v, current_time, row.last_seen)
        base == [row EXCEPT !.device_name = name,
                            !.last_seen = IF returning
                                          THEN isoformat(current_time) ELSE @,
                            !.visit_count = IF returning THEN @ + 1 ELSE @,
                            !.total_detections = @ + 1]
    IN  IF v = "simple" THEN base
        ELSE [base EXCEPT !.last_rssi = rssi,
                          !.last_distance = distance,
                          !.min_distance =
                              IF distance < row.min_distance
                              THEN distance ELSE row.min_distance]

\* variant of UpdatedRow that restarts first_seen with every new visit
UpdatedRowResetsFirstSeen(v, row, name, rssi, distance, current_time) ==
    LET returning == GapExceeds(v, current_time, row.last_seen)
        base == [row EXCEPT !.device_name = name,
                            !.first_seen = IF returning
                                           THEN isoformat(current_time) ELSE @,
                            !.last_seen = isoformat(current_time),
                            !.visit_count = IF returning THEN @ + 1 ELSE @,
                            !.total_detections = @ + 1]
    IN  IF v = "simple" THEN base
        ELSE [base EXCEPT !.last_rssi = rssi,
                          !.last_distance = distance,
                          !.min_distance =
                              IF distance < row.min_distance
                              THEN distance ELSE row.min_distance]

\* the UPDATE branch: the row after the statement
UpdatedRow(v, row, name, rssi, distance, current_time) ==
    LET visit_count ==
            IF GapExceeds(v, current_time, row.last_seen)
            THEN row.visit_count + 1 ELSE row.visit_count
        base == [row EXCEPT !.device_name = name,
                            !.last_seen = isoformat(current_time),
                            !.visit_count = visit_count,
                            !.total_detections = @ + 1]
    IN  IF v = "simple" THEN base
        ELSE [base EXCEPT !.last_rssi = rssi,
                          !.last_distance = distance,
                          !.min_distance =
                              IF distance < row.min_distance
                              THEN distance ELSE row.min_distance]

\* variant of InsertedRow that starts the detection counter at 0
InsertedRowUncounted(v, mac, name, device_type, rssi, distance, current_time) ==
    IF v = "simple"
    THEN [device_name |-> name, device_type |-> device_type,
          first_seen |-> isoformat(current_time),
          last_seen |-> isoformat(current_time),
          visit_count |-> 1, total_detections |-> 0]
    ELSE [mac_address |-> mac, device_name |-> name,
          device_type |-> device_type,
          first_seen |-> isoformat(current_time),
          last_seen |-> isoformat(current_time),
          visit_count |-> 1, total_detections |-> 0,
          last_rssi |-> rssi, last_distance |-> distance,
          min_distance |-> distance]

\* the INSERT branch
InsertedRow(v, mac, name, device_type, rssi, distance, current_time) ==
    IF v = "simple"
    THEN [device_name |-> name, device_type |-> device_type,
          first_seen |-> isoformat(current_time),
          last_seen |-> isoformat(current_time),
          visit_count |-> 1, total_detections |-> 1]
    ELSE [mac_address |-> mac, device_name |-> name,
          device_type |-> device_type,
          first_seen |-> isoformat(current_time),
          last_seen |-> isoformat(current_time),
          visit_count |-> 1, total_detections |-> 1,
          last_rssi |-> rssi, last_distance |-> distance,
          min_distance |-> distance]

DetectionRow(v, mac_hash, rssi, distance, current_time) ==
    IF v = "simple"
    THEN [mac_hash |-> mac_hash, detection_time |-> isoformat(current_time),
          scan_number |-> scan_count]
    ELSE [mac_hash |-> mac_hash, detection_time |-> isoformat(current_time),
          scan_number |-> scan_count, rssi |-> rssi, distance |-> distance]

\* ok = FALSE: some statement or the commit raised; nothing is committed
\* and the except branch returns False
save_to_database(ok) ==
    /\ pc = "save"
    /\ ~ok => failures < MaxFailures
    /\ LET mac_hash == hash_mac_address(variant, cur.mac)
           exists == mac_hash \in DOMAIN db
           is_returning ==
               exists /\ GapExceeds(variant, now, db[mac_hash].last_seen)
       IN  IF ok
           THEN /\ db' = IF exists
                         THEN [db EXCEPT ![mac_hash] =
                                 UpdatedRow(variant, db[mac_hash], cur.name,
                                            cur.rssi, cur.distance, now)]
                         ELSE db @@ (mac_hash :>
                                 InsertedRow(variant, cur.mac, cur.name,
                                             cur.type, cur.rssi,
                                             cur.distance, now))
                /\ detections' = Append(detections,
                                   DetectionRow(variant, mac_hash, cur.rssi,
                                                cur.distance, now))
                /\ cur' = [cur EXCEPT !.is_returning = is_returning,
                                      !.first_ever = ~exists,
                                      !.db_error = FALSE]
                /\ failures' = failures
           ELSE /\ UNCHANGED << db, detections >>
                /\ cur' = [cur EXCEPT !.is_returning = FALSE,
                                      !.first_ever = FALSE,
                                      !.db_error = TRUE]
                /\ failures' = failures + 1
    /\ pc' = "send"
    /\ UNCHANGED << scan, observed, calc,
                    callers, db_lock, variant, now, ticks, sent_events, scan_count,
                    posts, samples, restarts >>

----------------------------------------------------------------------------
(* send_scanner_event *)

NoFlags == [new_sent |-> FALSE, return_sent |-> FALSE]

\* variant of EventType that does not consult return_sent
EventTypeNoReturnCheck(is_returning, flags) ==
    IF ~is_returning /\ ~flags.new_sent THEN "new_device"
    ELSE IF is_returning THEN "returning_device"
    ELSE ""

\* the should_send / event_type decision; "" means nothing is sent
EventType(is_returning, flags) ==
    IF ~is_returning /\ ~flags.new_sent THEN "new_device"
    ELSE IF is_returning /\ ~flags.return_sent THEN "returning_device"
    ELSE ""

\* the flag is set before the request is made
MarkSent(flags, event_type) ==
    IF event_type = "new_device" THEN [flags EXCEPT !.new_sent = TRUE]
    ELSE IF event_type = "returning_device"
         THEN [flags EXCEPT !.return_sent = TRUE]
    ELSE flags

ResetFlag(flags, event_type) ==
    IF event_type = "new_device" THEN [flags EXCEPT !.new_sent = FALSE]
    ELSE IF event_type = "returning_device"
         THEN [flags EXCEPT !.return_sent = FALSE]
    ELSE flags

\* variant of ResetsOn that resets the flag after every request
ResetsOnAlways(v, outcome) == TRUE

\* which outcomes of requests.post reach a branch that resets the flag:
\* the simple scanner resets in its four except branches only, the
\* Raspberry Pi scanner also in the non-200 branch
ResetsOn(v, outcome) ==
    IF v = "simple" THEN outcome \notin {"200", "500"}
    ELSE outcome # "200"

Acked(outcome) == outcome = "200"

PostStatus(outcome) ==
    IF Acked(outcome) THEN "ack"
    ELSE IF outcome = "500" THEN "status"
    ELSE "error"

\* variant of Handlers without the catch-all except clause
HandlersRequestsOnly(v) ==
    IF v = "simple"
    THEN {"Timeout", "ConnectionError", "RequestException"}
    ELSE {"Timeout"}

\* the except clauses around requests.post
Handlers(v) ==
    IF v = "simple"
    THEN {"Timeout", "ConnectionError", "RequestException", "Exception"}
    ELSE {"Timeout", "Exception"}

\* requests.post raised instead of returning a response
Raises(outcome) == outcome \notin {"200", "500"}

\* isinstance(exception, handler class)
IsA(outcome, handler) ==
    \/ outcome = handler
    \/ handler = "Exception"
    \/ handler = "RequestException"
          /\ outcome \in {"Timeout", "ConnectionError"}

\* no except clause of send_scanner_event matches: the exception leaves
\* the function and ends the parse loop of the caller
Propagates(v, outcome) ==
    Raises(outcome) /\ ~\E handler \in Handlers(v) : IsA(outcome, handler)

\* the Holy-IOT exclusion exists in the Raspberry Pi scanner only
Excluded(v, name) == v = "rpi" /\ IsHolyIOT(name)

send_scanner_event(outcome) ==
    /\ pc = "send"
    /\ IF Excluded(variant, cur.name)
       THEN /\ UNCHANGED << sent_events, posts, failures >>
            /\ pc' = "scanning"
       ELSE LET mac_hash == hash_mac_address(variant, cur.mac)
                flags == IF mac_hash \in DOMAIN sent_events
                         THEN sent_events[mac_hash] ELSE NoFlags
                event_type == EventType(cur.is_returning, flags)
                marked == MarkSent(flags, event_type)
                final == IF event_type # "" /\ ResetsOn(variant, outcome)
                         THEN ResetFlag(marked, event_type) ELSE marked
                failed == event_type # "" /\ ~Acked(outcome)
            IN  /\ failed => failures < MaxFailures
                /\ failures' = IF failed THEN failures + 1 ELSE failures
                /\ sent_events' =
                      IF mac_hash \in DOMAIN sent_events
                      THEN [sent_events EXCEPT ![mac_hash] = final]
                      ELSE sent_events @@ (mac_hash :> final)
                /\ posts' =
                      IF event_type = "" THEN posts
                      ELSE Append(posts,
                                  [deviceId |-> mac_hash,
                                   event_type |-> event_type,
                                   isReturning |-> cur.is_returning,
                                   status |-> PostStatus(outcome)])
                /\ pc' = IF event_type # "" /\ Propagates(variant, outcome)
                         THEN "aborted" ELSE "scanning"
    /\ cur' = NoSample
    /\ UNCHANGED << scan, observed, calc,
                    callers, db_lock, variant, now, ticks, db, detections, scan_count,
                    samples, restarts >>

----------------------------------------------------------------------------
(* The scan loop *)

\* while self.running: self.scan_count += 1; scan
StartCycle ==
    /\ pc = "idle"
    /\ scan_count' = scan_count + 1
    /\ pc' = "scanning"
    /\ UNCHANGED << scan, observed, calc,
                    callers, db_lock, variant, now, ticks, db, detections, sent_events, cur,
                    posts, samples, failures, restarts >>

\* the locals of the parse loop for one reported device
Sample(mac, name, rssi) ==
    [mac |-> mac, name |-> name,
     type |-> classify_device(variant, name),
     rssi |-> IF variant = "rpi" THEN rssi ELSE 0,
     distance |-> IF variant = "rpi" THEN calculate_distance(rssi) ELSE 0,
     is_returning |-> FALSE, first_ever |-> FALSE, db_error |-> FALSE]

\* variant of Dropped that keeps every device
DroppedNever(v, device_type) == FALSE

\* the simple scanner keeps phones only
Dropped(v, device_type) == v = "simple" /\ device_type # TypePhone

\* one line of scanner output becomes a sample; a line the simple scanner
\* classifies as something else than a phone is skipped (continue)
NextSample(mac, name, rssi) ==
    /\ pc = "scanning"
    /\ samples < MaxSamples
    /\ samples' = samples + 1
    /\ IF Dropped(variant, classify_device(variant, name))
       THEN UNCHANGED << cur, pc >>
       ELSE /\ cur' = Sample(mac, name, rssi)
            /\ pc' = "save"
    /\ UNCHANGED << scan, observed, calc,
                    callers, db_lock, variant, now, ticks, db, detections, sent_events,
                    scan_count, posts, failures, restarts >>

\* the output is exhausted (or the scan failed: an empty batch); the
\* statistics are printed and time.sleep(5) runs; d is the time until the
\* next cycle reads the clock
EndCycle(d) ==
    /\ pc \in {"scanning", "aborted"}
    /\ ticks < MaxTicks
    /\ pc' = "idle"
    /\ now' = now + d
    /\ ticks' = ticks + 1
    /\ UNCHANGED << scan, observed, calc,
                    callers, db_lock, variant, db, detections, sent_events, scan_count, cur,
                    posts, samples, failures, restarts >>

\* variant of Restart whose init_database creates the tables anew
RestartRecreatesTables ==
    /\ restarts < MaxRestarts
    /\ restarts' = restarts + 1
    /\ sent_events' = << >>
    /\ scan_count' = 0
    /\ pc' = "idle"
    /\ cur' = NoSample
    /\ posts' = << >>
    /\ db' = << >>
    /\ detections' = << >>
    /\ UNCHANGED << scan, observed, calc,
                    callers, db_lock, variant, now, ticks, samples, failures >>

\* variant of Restart that finds the delivery flags of the old process
RestartKeepsFlags ==
    /\ restarts < MaxRestarts
    /\ restarts' = restarts + 1
    /\ scan_count' = 0
    /\ pc' = "idle"
    /\ cur' = NoSample
    /\ posts' = << >>
    /\ UNCHANGED << scan, observed, calc,
                    callers, db_lock, variant, now, ticks, db, detections,
                    sent_events, samples, failures >>

\* the process ends and is started again on the same database file
Restart ==
    /\ restarts < MaxRestarts
    /\ restarts' = restarts + 1
    /\ sent_events' = << >>
    /\ scan_count' = 0
    /\ pc' = "idle"
    /\ cur' = NoSample
    /\ posts' = << >>
    /\ UNCHANGED << scan, observed, calc,
                    callers, db_lock, variant, now, ticks, db, detections, samples, failures >>

Next ==
    \/ StartCycle
    \/ \E line \in ScanLines : NextSample(line[1], line[2], line[3])
    \/ \E ok \in BOOLEAN : save_to_database(ok)
    \/ \E outcome \in Outcomes : send_scanner_event(outcome)
    \/ \E d \in Deltas(variant) : EndCycle(d)
    \/ Restart

Spec == Init /\ [][Next]_vars

----------------------------------------------------------------------------
(* save_to_database called by two processes on one database file.          *)
(* Each call opens its own connection.  sqlite3 runs the SELECT outside    *)
(* any transaction, opens one implicitly before the first INSERT/UPDATE    *)
(* (which takes the write lock of the file) and releases it at commit; a   *)
(* connection that is dropped by the except branch rolls back.             *)

\* the lines a scanner hands to save_to_database
SavedLines(v) ==
    { line \in ScanLines : ~Dropped(v, classify_device(v, line[2])) }

CallHash(p) == hash_mac_address(variant, callers[p].line[1])
CallRssi(p) == IF variant = "rpi" THEN callers[p].line[3] ELSE 0
CallDistance(p) ==
    IF variant = "rpi" THEN calculate_distance(callers[p].line[3]) ELSE 0

\* the database left by one earlier sample of AA:AA at time 0
PresetDb(v) ==
    hash_mac_address(v, "AA:AA") :>
        InsertedRow(v, "AA:AA", NameIPhone, classify_device(v, NameIPhone),
                    IF v = "rpi" THEN MEASURED_POWER ELSE 0,
                    IF v = "rpi" THEN calculate_distance(MEASURED_POWER)
                    ELSE 0, 0)

PresetDetections(v) ==
    << DetectionRow(v, hash_mac_address(v, "AA:AA"),
                    IF v = "rpi" THEN MEASURED_POWER ELSE 0,
                    IF v = "rpi" THEN calculate_distance(MEASURED_POWER)
                    ELSE 0, 0) >>

InitConc ==
    /\ variant \in {"simple", "rpi"}
    /\ now = 0
    /\ ticks = 0
    /\ scan_count = 1
    /\ \E preset \in BOOLEAN :
          /\ db = IF preset THEN PresetDb(variant) ELSE << >>
          /\ detections = IF preset THEN PresetDetections(variant) ELSE << >>
          /\ samples = IF preset THEN 1 ELSE 0
    /\ sent_events = << >>
    /\ pc = "idle"
    /\ cur = NoSample
    /\ posts = << >>
    /\ failures = 0
    /\ restarts = 0
    /\ callers \in [Procs -> { [NoCall EXCEPT !.pc = "start", !.line = line] :
                                 line \in SavedLines(variant) }]
    /\ db_lock = "free"
    /\ scan = NoScan
    /\ observed = << >>
    /\ calc = << >>

\* connect, current_time = datetime.now(), SELECT ... WHERE mac_hash = ?,
\* fetchone(): the call reads the committed row, if there is one
ConcSelect(p) ==
    /\ callers[p].pc = "start"
    /\ callers' = [callers EXCEPT ![p] =
                     [@ EXCEPT !.pc = "selected",
                               !.current_time = now,
                               !.result = IF CallHash(p) \in DOMAIN db
                                          THEN << db[CallHash(p)] >>
                                          ELSE << >>]]
    /\ samples' = samples + 1
    /\ UNCHANGED << scan, observed, calc,
                    variant, now, ticks, db, detections, sent_events,
                    scan_count, pc, cur, posts, failures, restarts,
                    db_lock >>

\* the row an UPDATE of caller p leaves: visit_count, last_seen and
\* min_distance are computed from the row the call has read,
\* total_detections + 1 from the row as it is now
ConcUpdatedRow(p) ==
    [ UpdatedRow(variant, callers[p].result[1], callers[p].line[2],
                 CallRssi(p), CallDistance(p), callers[p].current_time)
        EXCEPT !.total_detections = db[CallHash(p)].total_detections + 1 ]

\* variant of Durable for a connection in autocommit mode
DurableEveryStatement(statement) == TRUE

\* the statements of a connection that make its writes part of the file:
\* sqlite3 opens a transaction before the first INSERT/UPDATE, and only
\* conn.commit() ends it
Durable(statement) == statement = "commit"

\* the tables with the writes of caller p applied
RowsWith(p, new_row) ==
    IF new_row = << >> THEN db
    ELSE IF CallHash(p) \in DOMAIN db
         THEN [db EXCEPT ![CallHash(p)] = new_row[1]]
         ELSE db @@ (CallHash(p) :> new_row[1])

\* caller p has run `statement`, after which its transaction holds new_row
\* and new_log: a durable statement puts them into the file and releases
\* the write lock, any other keeps them in the transaction
AfterStatement(p, statement, next_pc, new_row, new_log) ==
    IF Durable(statement)
    THEN /\ db' = RowsWith(p, new_row)
         /\ detections' = detections \o new_log
         /\ db_lock' = "free"
         /\ callers' = [callers EXCEPT ![p] =
                          [@ EXCEPT !.pc = next_pc, !.new_row = << >>,
                                    !.new_log = << >>]]
    ELSE /\ UNCHANGED << db, detections >>
         /\ db_lock' = p
         /\ callers' = [callers EXCEPT ![p] =
                          [@ EXCEPT !.pc = next_pc, !.new_row = new_row,
                                    !.new_log = new_log]]

\* the UPDATE or INSERT of the device row: the implicit BEGIN and the write
\* take the write lock
ConcWrite(p) ==
    /\ callers[p].pc = "selected"
    /\ db_lock = "free"
    /\ callers[p].result = << >> => CallHash(p) \notin DOMAIN db
    /\ AfterStatement(p, "devices", "written",
          << IF callers[p].result # << >>
             THEN ConcUpdatedRow(p)
             ELSE InsertedRow(variant, callers[p].line[1], callers[p].line[2],
                              classify_device(variant, callers[p].line[2]),
                              CallRssi(p), CallDistance(p),
                              callers[p].current_time) >>,
          << >>)
    /\ UNCHANGED << variant, now, ticks, sent_events, scan_count, pc, cur,
                    posts, samples, failures, restarts, scan, observed,
                    calc >>

\* INSERT INTO detections, in the same transaction
ConcLog(p) ==
    /\ callers[p].pc = "written"
    /\ db_lock \in {"free", p}
    /\ AfterStatement(p, "detections", "logged", callers[p].new_row,
          callers[p].new_log
            \o << DetectionRow(variant, CallHash(p), CallRssi(p),
                               CallDistance(p), callers[p].current_time) >>)
    /\ UNCHANGED << variant, now, ticks, sent_events, scan_count, pc, cur,
                    posts, samples, failures, restarts, scan, observed,
                    calc >>

\* conn.commit(); conn.close(); return is_returning
ConcCommit(p) ==
    /\ callers[p].pc = "logged"
    /\ AfterStatement(p, "commit", "done", callers[p].new_row,
                      callers[p].new_log)
    /\ UNCHANGED << variant, now, ticks, sent_events, scan_count, pc, cur,
                    posts, samples, failures, restarts, scan, observed,
                    calc >>

\* the call ends without commit: the connection is dropped, what its
\* transaction holds is rolled back and its lock is released
ConcDropped(p, error) ==
    /\ callers' = [callers EXCEPT ![p] =
                     [@ EXCEPT !.pc = "done", !.error = error,
                               !.at = callers[p].pc, !.new_row = << >>,
                               !.new_log = << >>]]
    /\ db_lock' = IF db_lock = p THEN "free" ELSE db_lock
    /\ UNCHANGED << variant, now, ticks, db, detections, sent_events,
                    scan_count, pc, cur, posts, samples, failures, restarts,
                    scan, observed, calc >>

\* the INSERT of a call that found no row, after another call has committed
\* the row: mac_hash is the primary key, sqlite3.IntegrityError is raised,
\* the except branch returns False and nothing of this call is stored
ConcIntegrityError(p) ==
    /\ callers[p].pc = "selected"
    /\ db_lock = "free"
    /\ callers[p].result = << >>
    /\ CallHash(p) \in DOMAIN db
    /\ ConcDropped(p, "IntegrityError")

\* the first write while the other connection holds the write lock for
\* longer than the connection's timeout: sqlite3.OperationalError
\* (database is locked), the except branch returns False
ConcBusy(p) ==
    /\ callers[p].pc = "selected"
    /\ db_lock \notin {"free", p}
    /\ ConcDropped(p, "OperationalError")

\* the next statement or the commit raises (disk full, I/O error): the
\* except branch returns False
ConcStorageError(p) ==
    /\ callers[p].pc \in {"selected", "written", "logged"}
    /\ ConcDropped(p, "StorageError")

\* SIGINT arrives while the call runs: the handler calls sys.exit(0) and
\* SystemExit passes the `except Exception` of save_to_database
ConcCancel(p) ==
    /\ callers[p].pc \in {"selected", "written", "logged"}
    /\ ConcDropped(p, "SystemExit")

\* variant of QueryView for a connection that reads uncommitted writes
QueryViewUncommitted ==
    LET writers == { p \in Procs : callers[p].new_row # << >> }
    IN  IF writers = {} THEN [rows |-> db, log |-> detections]
        ELSE LET p == CHOOSE w \in writers : TRUE
             IN  [rows |-> RowsWith(p, callers[p].new_row),
                  log |-> detections \o callers[p].new_log]

\* what a SELECT of another connection reads: the tables as committed
QueryView == [rows |-> db, log |-> detections]

\* date(last_seen) of a stored timestamp, in days
DateOf(stamp) == stamp.minute \div (24 * 60)

\* COUNT(*) FROM devices WHERE visit_count >= 1: variant of ReturningCount
ReturningCountInclusive(rows) ==
    Cardinality({ h \in DOMAIN rows : rows[h].visit_count >= 1 })

\* SELECT COUNT(*) FROM devices WHERE visit_count > 1
ReturningCount(rows) ==
    Cardinality({ h \in DOMAIN rows : rows[h].visit_count > 1 })

\* SELECT COUNT(*) FROM devices WHERE date(last_seen) = today
TodayCount(rows, current_time) ==
    Cardinality({ h \in DOMAIN rows :
                    DateOf(rows[h].last_seen) = DateOf(isoformat(current_time)) })

\* the calls that hold uncommitted writes
InTransaction == { p \in Procs : callers[p].new_row # << >> }

\* get_statistics / get_visitor_stats, first query:
\* SELECT COUNT(*) FROM devices
ConcCountDevices ==
    /\ observed = << >>
    /\ observed' = << [query |-> "devices",
                       value |-> Cardinality(DOMAIN QueryView.rows),
                       in_progress |-> InTransaction] >>
    /\ UNCHANGED << variant, now, ticks, db, detections, sent_events,
                    scan_count, pc, cur, posts, samples, failures, restarts,
                    callers, db_lock, scan, calc >>

\* get_statistics, a later query: SELECT COUNT(*) FROM detections
ConcCountDetections ==
    /\ Len(observed) = 1
    /\ observed' = Append(observed,
                      [query |-> "detections",
                       value |-> Len(QueryView.log),
                       in_progress |-> InTransaction])
    /\ UNCHANGED << variant, now, ticks, db, detections, sent_events,
                    scan_count, pc, cur, posts, samples, failures, restarts,
                    callers, db_lock, scan, calc >>

\* get_visitor_stats / get_statistics, second query:
\* SELECT COUNT(*) FROM devices WHERE visit_count > 1
ConcCountReturning ==
    /\ Len(observed) = 1
    /\ observed[1].query = "devices"
    /\ observed' = Append(observed,
                      [query |-> "returning",
                       value |-> ReturningCount(QueryView.rows),
                       in_progress |-> InTransaction])
    /\ UNCHANGED << variant, now, ticks, db, detections, sent_events,
                    scan_count, pc, cur, posts, samples, failures, restarts,
                    callers, db_lock, scan, calc >>

\* third query: SELECT COUNT(*) FROM devices WHERE date(last_seen) = today
ConcCountToday ==
    /\ Len(observed) = 2
    /\ observed[2].query = "returning"
    /\ observed' = Append(observed,
                      [query |-> "today",
                       value |-> TodayCount(QueryView.rows, now),
                       in_progress |-> InTransaction])
    /\ UNCHANGED << variant, now, ticks, db, detections, sent_events,
                    scan_count, pc, cur, posts, samples, failures, restarts,
                    callers, db_lock, scan, calc >>

\* time passes before a call or between two calls (a call takes far less
\* than the shortest step of the clock)
ConcClock(d) ==
    /\ ticks < MaxTicks
    /\ \E p \in Procs : callers[p].pc = "start"
    /\ \A p \in Procs : callers[p].pc \in {"start", "done"}
    /\ now' = now + d
    /\ ticks' = ticks + 1
    /\ UNCHANGED << scan, observed, calc,
                    variant, db, detections, sent_events, scan_count, pc,
                    cur, posts, samples, failures, restarts, callers,
                    db_lock >>

NextConc ==
    \/ \E p \in Procs : ConcSelect(p)
    \/ \E p \in Procs : ConcWrite(p)
    \/ \E p \in Procs : ConcLog(p)
    \/ \E p \in Procs : ConcCommit(p)
    \/ \E p \in Procs : ConcIntegrityError(p)
    \/ \E p \in Procs : ConcBusy(p)
    \/ \E p \in Procs : ConcStorageError(p)
    \/ \E p \in Procs : ConcCancel(p)
    \/ ConcCountDevices
    \/ ConcCountDetections
    \/ ConcCountReturning
    \/ ConcCountToday
    \/ \E d \in Deltas(variant) : ConcClock(d)

SpecConc == InitConc /\ [][NextConc]_vars

----------------------------------------------------------------------------
(* The distance estimate and the statistics queries, applied to inputs     *)
(* drawn from bounded sets: each behaviour applies one of them once.       *)

MaxVisits == 3

RssiRange == -100 .. 20
MeasuredPowers == {MEASURED_POWER, -65}
PathLossExponents == {1, PATH_LOSS_EXPONENT, 4}

\* distances handed to get_distance_accuracy directly, in hundredths
DistanceInputs == {-100, -1, 0, 1, 100, 101, 300, 301, 1000, 1001}

StatsMacs == <<"AA:AA", "BB:BB", "CC:CC">>

StatsIndex(mac) == CHOOSE i \in DOMAIN StatsMacs : StatsMacs[i] = mac

\* the row of a device that has been seen `visits` times, each time after
\* the return window had passed
LedgerRow(v, mac, visits) ==
    [ InsertedRow(v, mac, NameIPhone, classify_device(v, NameIPhone),
                  IF v = "rpi" THEN MEASURED_POWER ELSE 0,
                  IF v = "rpi" THEN calculate_distance(MEASURED_POWER) ELSE 0,
                  0)
        EXCEPT !.visit_count = visits, !.total_detections = visits ]

\* counts[i] = 0: the i-th device has never been seen
LedgerDb(v, counts) ==
    LET present == { i \in DOMAIN StatsMacs : counts[i] > 0 }
    IN  IF present = {} THEN << >>
        ELSE [ h \in { hash_mac_address(v, StatsMacs[i]) : i \in present }
                 |-> LedgerRow(v, h[2], counts[StatsIndex(h[2])]) ]

RECURSIVE LedgerLog(_, _, _)
LedgerLog(v, counts, i) ==
    IF i > Len(StatsMacs) THEN << >>
    ELSE [ k \in 1 .. counts[i] |->
             IF v = "simple"
             THEN [mac_hash |-> hash_mac_address(v, StatsMacs[i]),
                   detection_time |-> isoformat(0), scan_number |-> k]
             ELSE [mac_hash |-> hash_mac_address(v, StatsMacs[i]),
                   detection_time |-> isoformat(0), scan_number |-> k,
                   rssi |-> MEASURED_POWER,
                   distance |-> calculate_distance(MEASURED_POWER)] ]
         \o LedgerLog(v, counts, i + 1)

\* the scanners' get_visitor_stats on the committed tables; ok = FALSE: a
\* statement raised and the except branch returns zeros
get_visitor_stats(v, rows, current_time, ok) ==
    IF v = "simple"
    THEN [query |-> "get_visitor_stats", ok |-> ok,
          total |-> IF ok THEN Cardinality(DOMAIN rows) ELSE 0,
          returning |-> IF ok THEN ReturningCount(rows) ELSE 0,
          today |-> IF ok THEN TodayCount(rows, current_time) ELSE 0]
    ELSE [query |-> "get_visitor_stats", ok |-> ok,
          total |-> IF ok THEN Cardinality(DOMAIN rows) ELSE 0,
          returning |-> IF ok THEN ReturningCount(rows) ELSE 0,
          today |-> IF ok THEN TodayCount(rows, current_time) ELSE 0,
          nearby |-> IF ok
                     THEN Cardinality({ h \in DOMAIN rows :
                                          rows[h].last_distance < 500 })
                     ELSE 0]

\* the extractor's get_statistics; the seven days before now lie within the
\* horizon of the model, so week_visitors counts every row; top_devices
\* (at most five rows) is kept as a set; ok = FALSE returns {}
get_statistics(rows, log, current_time, ok) ==
    IF ok
    THEN [query |-> "get_statistics", ok |-> TRUE,
          total_devices |-> Cardinality(DOMAIN rows),
          returning_visitors |-> ReturningCount(rows),
          today_visitors |-> TodayCount(rows, current_time),
          week_visitors |-> Cardinality(DOMAIN rows),
          device_types |->
              [ t \in { rows[h].device_type : h \in DOMAIN rows } |->
                  Cardinality({ h \in DOMAIN rows : rows[h].device_type = t }) ],
          total_detections |-> Len(log),
          top_devices |-> { << rows[h].device_name, rows[h].visit_count >> :
                              h \in DOMAIN rows }]
    ELSE [query |-> "get_statistics", ok |-> FALSE]

InitCalc ==
    /\ variant \in {"simple", "rpi"}
    /\ now = 0
    /\ ticks = 0
    /\ scan_count = 0
    /\ \E counts \in [DOMAIN StatsMacs -> 0 .. MaxVisits] :
          /\ db = LedgerDb(variant, counts)
          /\ detections = LedgerLog(variant, counts, 1)
    /\ sent_events = << >>
    /\ pc = "idle"
    /\ cur = NoSample
    /\ posts = << >>
    /\ samples = 0
    /\ failures = 0
    /\ restarts = 0
    /\ callers = [p \in Procs |-> NoCall]
    /\ db_lock = "free"
    /\ scan = NoScan
    /\ observed = << >>
    /\ calc = << >>

\* device_info of one reported device: the distance and its bucket
CalcDistance(rssi, measured_power, path_loss_exponent) ==
    /\ calc = << >>
    /\ observed = << >>
    /\ calc' = << [fn |-> "calculate_distance", rssi |-> rssi,
                   measured_power |-> measured_power,
                   path_loss_exponent |-> path_loss_exponent,
                   distance |-> calculate_distance_for(rssi, measured_power,
                                                       path_loss_exponent),
                   accuracy |-> get_distance_accuracy(
                                  calculate_distance_for(rssi, measured_power,
                                                         path_loss_exponent))] >>
    /\ UNCHANGED << variant, now, ticks, db, detections, sent_events,
                    scan_count, pc, cur, posts, samples, failures, restarts,
                    callers, db_lock, scan, observed >>

CalcAccuracy(distance) ==
    /\ calc = << >>
    /\ observed = << >>
    /\ calc' = << [fn |-> "get_distance_accuracy", distance |-> distance,
                   accuracy |-> get_distance_accuracy(distance)] >>
    /\ UNCHANGED << variant, now, ticks, db, detections, sent_events,
                    scan_count, pc, cur, posts, samples, failures, restarts,
                    callers, db_lock, scan, observed >>

CalcVisitorStats(ok) ==
    /\ observed = << >>
    /\ calc = << >>
    /\ observed' = << get_visitor_stats(variant, db, now, ok) >>
    /\ UNCHANGED << variant, now, ticks, db, detections, sent_events,
                    scan_count, pc, cur, posts, samples, failures, restarts,
                    callers, db_lock, scan, calc >>

CalcStatistics(ok) ==
    /\ observed = << >>
    /\ calc = << >>
    /\ observed' = << get_statistics(db, detections, now, ok) >>
    /\ UNCHANGED << variant, now, ticks, db, detections, sent_events,
                    scan_count, pc, cur, posts, samples, failures, restarts,
                    callers, db_lock, scan, calc >>

\* device_type = self.classify_device(name)
CalcClassify(name) ==
    /\ calc = << >>
    /\ observed = << >>
    /\ calc' = << [fn |-> "classify_device", name |-> name,
                   device_type |-> classify_device(variant, name)] >>
    /\ UNCHANGED << variant, now, ticks, db, detections, sent_events,
                    scan_count, pc, cur, posts, samples, failures, restarts,
                    callers, db_lock, scan, observed >>

\* --path-loss as given on the command line (type=float, no check)
PathLossArguments == {-2, 0} \cup PathLossExponents

\* calculate_distance with the configured constants: the division by
\* 10 * PATH_LOSS_EXPONENT raises ZeroDivisionError for an exponent of 0
\* (after the rssi == 0 test), a negative exponent negates the power
configured_distance(rssi, measured_power, path_loss_exponent) ==
    IF rssi = 0 THEN [raised |-> "", distance |-> -100]
    ELSE IF path_loss_exponent = 0
    THEN [raised |-> "ZeroDivisionError", distance |-> 0]
    ELSE IF path_loss_exponent < 0
    THEN [raised |-> "",
          distance |-> RoundedPow10(((rssi - measured_power) * 4)
                                      \div (0 - path_loss_exponent))]
    ELSE [raised |-> "",
          distance |-> calculate_distance_for(rssi, measured_power,
                                              path_loss_exponent)]

\* main(): the arguments are stored in the scanner, check_bluetooth_status
\* decides between sys.exit(1) and run_continuous_scan, whose first sample
\* has the given rssi
main(power, path_loss, bluetooth_ok, rssi) ==
    /\ calc = << >>
    /\ observed = << >>
    /\ calc' = << [fn |-> "main", measured_power |-> power,
                   path_loss_exponent |-> path_loss,
                   running |-> bluetooth_ok,
                   rssi |-> rssi,
                   first_sample |-> configured_distance(rssi, power,
                                                        path_loss)] >>
    /\ UNCHANGED << variant, now, ticks, db, detections, sent_events,
                    scan_count, pc, cur, posts, samples, failures, restarts,
                    callers, db_lock, scan, observed >>

NextCalc ==
    \/ \E rssi \in RssiRange, measured_power \in MeasuredPowers,
          path_loss_exponent \in PathLossExponents :
          CalcDistance(rssi, measured_power, path_loss_exponent)
    \/ \E distance \in DistanceInputs : CalcAccuracy(distance)
    \/ \E ok \in BOOLEAN : CalcVisitorStats(ok)
    \/ \E ok \in BOOLEAN : CalcStatistics(ok)
    \/ \E name \in ClassifyNames : CalcClassify(name)
    \/ \E power \in MeasuredPowers, path_loss \in PathLossArguments,
          bluetooth_ok \in BOOLEAN, rssi \in Rssis :
          main(power, path_loss, bluetooth_ok, rssi)

SpecCalc == InitCalc /\ [][NextCalc]_vars

----------------------------------------------------------------------------
(* run_continuous_scan with its scan paths, the failures of the scanner    *)
(* tools and SIGINT.  The simple scanner reads `hcitool scan`; the         *)
(* Raspberry Pi scanner reads `hcitool scan`, then `btmgmt find`, and      *)
(* after parsing that the device list of bluetoothctl.  Every path saves   *)
(* and sends each device it reports.                                       *)

FetchOutcomes == {"ok", "failed", "TimeoutExpired", "Exception"}

\* variant of ScanHandlers that catches timeouts only
ScanHandlersTimeoutOnly(v, path) == {"TimeoutExpired"}

\* the except clauses around the scanner tool of a path; the bare except
\* of scan_ble_devices catches BaseException
ScanHandlers(v, path) ==
    IF v = "rpi" /\ path = "btmgmt" THEN {"BaseException"}
    ELSE IF v = "rpi" /\ path = "bluetoothctl" THEN {"Exception"}
    ELSE {"TimeoutExpired", "Exception"}

ScanCatches(v, path, outcome) ==
    \E handler \in ScanHandlers(v, path) :
        handler = "BaseException" \/ IsA(outcome, handler)

\* the bare except of scan_ble_devices encloses the parsing of the btmgmt
\* output and the bluetoothctl pass that follows it
InsideBareExcept ==
    /\ variant = "rpi"
    /\ scan.path \in {"btmgmt", "bluetoothctl"}
    /\ pc \in {"fetch", "scanning", "save", "send"}

\* the path read after `path` has reported all its devices
PathAfter(v, path) ==
    IF v = "rpi" /\ path = "hcitool" THEN "btmgmt"
    ELSE IF v = "rpi" /\ path = "btmgmt" THEN "bluetoothctl"
    ELSE "none"

\* the path read after the tool of `path` has failed or printed nothing:
\* without btmgmt output parse_btmgmt_output is not called, and the
\* bluetoothctl pass is part of it
PathAfterFailure(v, path) ==
    IF v = "rpi" /\ path = "hcitool" THEN "btmgmt" ELSE "none"

GoToPath(path) ==
    IF path = "none"
    THEN /\ pc' = "stats"
         /\ scan' = [scan EXCEPT !.path = "none", !.reported = {}]
    ELSE /\ pc' = "fetch"
         /\ scan' = [scan EXCEPT !.path = path, !.reported = {}]

\* while self.running: self.scan_count += 1, and the first tool is started
LoopStart ==
    /\ pc = "idle"
    /\ scan.running
    /\ scan_count' = scan_count + 1
    /\ pc' = "fetch"
    /\ scan' = [scan EXCEPT !.path = "hcitool", !.reported = {}]
    /\ UNCHANGED << variant, now, ticks, db, detections, sent_events, cur,
                    posts, samples, failures, restarts, callers, db_lock,
                    observed, calc >>

\* subprocess.run of the tool of the current path returns or raises
Fetch(outcome) ==
    /\ pc = "fetch"
    /\ outcome # "ok" => failures < MaxFailures
    /\ failures' = IF outcome = "ok" THEN failures ELSE failures + 1
    /\ IF outcome = "ok"
       THEN /\ pc' = "scanning"
            /\ scan' = scan
       ELSE IF outcome = "failed" \/ ScanCatches(variant, scan.path, outcome)
       THEN GoToPath(PathAfterFailure(variant, scan.path))
       ELSE /\ pc' = "exited"
            /\ scan' = scan
    /\ UNCHANGED << variant, now, ticks, db, detections, sent_events,
                    scan_count, cur, posts, samples, restarts, callers,
                    db_lock, observed, calc >>

\* the next line of the tool's output; an output lists an address once
LoopSample(mac, name, rssi) ==
    /\ pc = "scanning"
    /\ samples < MaxSamples
    /\ mac \notin scan.reported
    /\ samples' = samples + 1
    /\ scan' = [scan EXCEPT !.reported = @ \cup {mac}]
    /\ IF Dropped(variant, classify_device(variant, name))
       THEN UNCHANGED << cur, pc >>
       ELSE /\ cur' = Sample(mac, name, rssi)
            /\ pc' = "save"
    /\ UNCHANGED << variant, now, ticks, db, detections, sent_events,
                    scan_count, posts, failures, restarts, callers, db_lock,
                    observed, calc >>

\* the output of the current path is exhausted
PathDone ==
    /\ pc = "scanning"
    /\ GoToPath(PathAfter(variant, scan.path))
    /\ UNCHANGED << variant, now, ticks, db, detections, sent_events,
                    scan_count, cur, posts, samples, failures, restarts,
                    callers, db_lock, observed, calc >>

\* the statistics line is printed and time.sleep(5) runs
LoopSleep(d) ==
    /\ pc = "stats"
    /\ scan.running
    /\ ticks < MaxTicks
    /\ pc' = "idle"
    /\ now' = now + d
    /\ ticks' = ticks + 1
    /\ UNCHANGED << variant, db, detections, sent_events, scan_count, cur,
                    posts, samples, failures, restarts, callers, db_lock,
                    scan, observed, calc >>

\* the loop condition is false: run_continuous_scan returns
LoopStop ==
    /\ pc = "stats"
    /\ ~scan.running
    /\ pc' = "exited"
    /\ UNCHANGED << variant, now, ticks, db, detections, sent_events,
                    scan_count, cur, posts, samples, failures, restarts,
                    callers, db_lock, scan, observed, calc >>

\* SIGINT: the handler clears the loop flag, prints the statistics and
\* calls sys.exit(0) on top of whatever the main thread was doing.
\* SystemExit passes every `except Exception`; it ends the process unless
\* the bare except of scan_ble_devices swallows it, after which the cycle
\* goes on behind scan_ble_devices
signal_handler ==
    /\ pc # "exited"
    /\ scan.running
    /\ scan' = [scan EXCEPT !.running = FALSE]
    /\ pc' = IF InsideBareExcept THEN "stats" ELSE "exited"
    /\ UNCHANGED << variant, now, ticks, db, detections, sent_events,
                    scan_count, cur, posts, samples, failures, restarts,
                    callers, db_lock, observed, calc >>

NextLoop ==
    \/ LoopStart
    \/ \E outcome \in FetchOutcomes : Fetch(outcome)
    \/ \E line \in ScanLines : LoopSample(line[1], line[2], line[3])
    \/ \E ok \in BOOLEAN : save_to_database(ok)
    \/ \E outcome \in Outcomes : send_scanner_event(outcome)
    \/ PathDone
    \/ \E d \in Deltas(variant) : LoopSleep(d)
    \/ LoopStop
    \/ signal_handler

SpecLoop == Init /\ [][NextLoop]_vars

----------------------------------------------------------------------------
(* Vocabulary of the properties *)

IdA == hash_mac_address(variant, "AA:AA")

\* the step is a complete call of save_to_database / send_scanner_event
IsSaveStep == pc = "save" /\ pc' = "send" /\ restarts' = restarts

IsSendStep == pc = "send" /\ pc' = "scanning" /\ restarts' = restarts

CurHash == hash_mac_address(variant, cur.mac)

Transition(is_returning) ==
    IF is_returning THEN "returning_device" ELSE "new_device"

FlagOf(flags, event_type) ==
    IF event_type = "new_device" THEN flags.new_sent ELSE flags.return_sent

PostsOf(h, event_type) ==
    { i \in DOMAIN posts :
        posts[i].deviceId = h /\ posts[i].event_type = event_type }

AckedPosts(h, event_type) ==
    { i \in PostsOf(h, event_type) : posts[i].status = "ack" }

LastPost(h, event_type) ==
    posts[CHOOSE i \in PostsOf(h, event_type) :
            \A j \in PostsOf(h, event_type) : j <= i]

DetectionsOf(h) == { i \in DOMAIN detections : detections[i].mac_hash = h }

\* seconds between the two latest detections of h (h has at least two)
LatestGap(h) ==
    LET last == CHOOSE i \in DetectionsOf(h) :
                   \A j \in DetectionsOf(h) : j <= i
        prev == CHOOSE i \in DetectionsOf(h) \ {last} :
                   \A j \in DetectionsOf(h) \ {last} : j <= i
    IN  fromisoformat(detections[last].detection_time)
          - fromisoformat(detections[prev].detection_time)

EventTypes == {"new_device", "returning_device"}

----------------------------------------------------------------------------
(* C1..C10 *)

\* C1: within one process session the collector acknowledges at most one
\* new_device and at most one returning_device request per identity,
\* however many visits the identity makes.
C1_AtMostOneAckPerTransition ==
    \A i \in DOMAIN posts, j \in DOMAIN posts :
        ( /\ posts[i].deviceId = posts[j].deviceId
          /\ posts[i].event_type = posts[j].event_type
          /\ posts[i].status = "ack"
          /\ posts[j].status = "ack" ) => i = j

\* an identity on its third visit with both transitions acknowledged
C1_Witness ==
    \E h \in DOMAIN db :
        /\ db[h].visit_count >= 3
        /\ cur = NoSample
        /\ AckedPosts(h, "new_device") # {}
        /\ AckedPosts(h, "returning_device") # {}

\* C2 (as claimed): at every call boundary a flag of sent_events is true
\* only if a request of that transition was acknowledged earlier in the
\* session; a failed attempt of any kind leaves the flag false.
C2_FlagImpliesAck ==
    cur = NoSample =>
        \A h \in DOMAIN sent_events :
            /\ sent_events[h].new_sent => AckedPosts(h, "new_device") # {}
            /\ sent_events[h].return_sent =>
                   AckedPosts(h, "returning_device") # {}

\* C3: once a transition of an identity has been acknowledged, a later
\* send_scanner_event call for that identity and transition makes no
\* request.
C3_NoRequestAfterAck ==
    [][ ( /\ IsSendStep
          /\ AckedPosts(CurHash, Transition(cur.is_returning)) # {} )
        => posts' = posts ]_vars

\* two non-returning samples of one identity went through
\* send_scanner_event and only the first one made a request
C3_Witness ==
    /\ restarts = 0
    /\ cur = NoSample
    /\ \E h \in DOMAIN db :
          /\ db[h].total_detections = 2
          /\ db[h].visit_count = 1
          /\ failures = 0
          /\ Cardinality(PostsOf(h, "new_device")) = 1
          /\ AckedPosts(h, "new_device") # {}

\* C4 (as claimed): when the latest attempt of the sample's transition
\* failed, send_scanner_event makes another attempt, and an acknowledged
\* attempt sets the flag; when it was acknowledged, no request is made.
C4_RetryAfterFailure ==
    [][ ( /\ IsSendStep
          /\ ~Excluded(variant, cur.name)
          /\ PostsOf(CurHash, Transition(cur.is_returning)) # {} )
        => LET t == Transition(cur.is_returning)
               last == LastPost(CurHash, t)
           IN  IF last.status = "ack"
               THEN posts' = posts
               ELSE /\ Len(posts') = Len(posts) + 1
                    /\ posts'[Len(posts')].event_type = t
                    /\ posts'[Len(posts')].status = "ack"
                         => FlagOf(sent_events'[CurHash], t) ]_vars

\* C5 (as claimed): a stored sample that is neither the first ever of its
\* identity nor a returning one causes no request, whatever the flags are.
C5_NoRequestForRoutineSample ==
    [][ ( /\ IsSendStep
          /\ ~cur.db_error
          /\ ~cur.first_ever
          /\ ~cur.is_returning )
        => posts' = posts ]_vars

\* C6 (as claimed): a sample that save_to_database failed to persist
\* changes neither the Ledger nor the delivery flags and causes no request.
C6_FailedSaveDropsSample ==
    [][ /\ ( IsSaveStep /\ cur'.db_error )
            => ( db' = db /\ detections' = detections )
        /\ ( IsSendStep /\ cur.db_error )
            => ( posts' = posts /\ sent_events' = sent_events ) ]_vars

\* C7: the first sample of an identity that is not in the Ledger creates a
\* row with visit_count = 1, total_detections = 1 and
\* first_seen = last_seen = now, and is reported as not returning.
C7_FirstSampleCreatesRow ==
    [][ ( /\ IsSaveStep
          /\ ~cur'.db_error
          /\ CurHash \notin DOMAIN db )
        => /\ CurHash \in DOMAIN db'
           /\ db'[CurHash].visit_count = 1
           /\ db'[CurHash].total_detections = 1
           /\ fromisoformat(db'[CurHash].first_seen) = now
           /\ fromisoformat(db'[CurHash].last_seen) = now
           /\ ~cur'.is_returning ]_vars

\* a row has just been created, not on a whole minute
C7_Witness ==
    /\ pc = "send"
    /\ cur.first_ever
    /\ now % 60 # 0
    /\ db[CurHash].total_detections = 1

\* C8: a sample of a known identity whose gap to last_seen is at most the
\* return window (the window itself included) is not returning, keeps
\* visit_count, adds one to total_detections and sets last_seen to now.
C8_WithinWindow ==
    [][ ( /\ IsSaveStep
          /\ ~cur'.db_error
          /\ CurHash \in DOMAIN db
          /\ now - fromisoformat(db[CurHash].last_seen)
                <= ReturnWindow(variant) )
        => /\ ~cur'.is_returning
           /\ db'[CurHash].visit_count = db[CurHash].visit_count
           /\ db'[CurHash].total_detections
                = db[CurHash].total_detections + 1
           /\ fromisoformat(db'[CurHash].last_seen) = now ]_vars

\* a sample exactly one return window after the previous one was stored
\* as not returning
C8_Witness ==
    /\ pc = "send"
    /\ ~cur.db_error
    /\ ~cur.first_ever
    /\ ~cur.is_returning
    /\ LatestGap(CurHash) = ReturnWindow(variant)

\* C9: a sample of a known identity whose gap to last_seen exceeds the
\* return window is returning and adds exactly one to visit_count and to
\* total_detections; last_seen always is the time of the identity's latest
\* stored sample, so the gap is measured from that sample.
C9_AfterWindow ==
    /\ [] ( \A h \in DOMAIN db :
              /\ DetectionsOf(h) # {}
              /\ \A i \in DetectionsOf(h) :
                    fromisoformat(detections[i].detection_time)
                       <= fromisoformat(db[h].last_seen)
              /\ \E i \in DetectionsOf(h) :
                    detections[i].detection_time = db[h].last_seen )
    /\ [][ ( /\ IsSaveStep
             /\ ~cur'.db_error
             /\ CurHash \in DOMAIN db
             /\ now - fromisoformat(db[CurHash].last_seen)
                   > ReturnWindow(variant) )
           => /\ cur'.is_returning
              /\ db'[CurHash].visit_count = db[CurHash].visit_count + 1
              /\ db'[CurHash].total_detections
                   = db[CurHash].total_detections + 1 ]_vars

\* a third sample, one second more than the window after the second one,
\* which itself came within the window of the first
C9_Witness ==
    /\ pc = "send"
    /\ cur.is_returning
    /\ db[CurHash].total_detections = 3
    /\ db[CurHash].visit_count = 2
    /\ LatestGap(CurHash) = ReturnWindow(variant) + 1

ScenarioTimes == << 0, 30, 20 * 60 >>

ScenarioVisits == << 1, 1, 2 >>

ScenarioPosts ==
    << [deviceId |-> IdA, event_type |-> "new_device",
        isReturning |-> FALSE, status |-> "ack"],
       [deviceId |-> IdA, event_type |-> "returning_device",
        isReturning |-> TRUE, status |-> "ack"] >>

\* the first k samples of the scenario have been processed, and nothing else
ScenarioPrefix(k) ==
    /\ variant = "simple"
    /\ restarts = 0
    /\ failures = 0
    /\ cur = NoSample
    /\ samples = k
    /\ Len(detections) = k
    /\ \A i \in 1..k :
          /\ detections[i].mac_hash = IdA
          /\ fromisoformat(detections[i].detection_time) = ScenarioTimes[i]

\* C10: from an empty Ledger and a fresh process, with every request
\* acknowledged, samples of one identity at 0 s, 30 s and 20 min (window
\* 15 min) give visit_count 1, 1, 2 and exactly two requests: new_device
\* at the first sample, returning_device at the third.
C10_Scenario ==
    \A k \in 1..3 :
        ScenarioPrefix(k) =>
            /\ db[IdA].visit_count = ScenarioVisits[k]
            /\ posts = SubSeq(ScenarioPosts, 1, ScenarioVisits[k])

C10_Witness == ScenarioPrefix(3)

----------------------------------------------------------------------------
(* C11..C20 *)

\* C11: visit_count of an identity never decreases, whatever step is
\* taken (samples, storage failures, restarts), and no row disappears.
C11_VisitCountMonotone ==
    [][ \A h \in DOMAIN db :
          /\ h \in DOMAIN db'
          /\ db'[h].visit_count >= db[h].visit_count ]_vars

\* an identity on its second visit was sampled again within the window,
\* after a restart
C11_Witness ==
    /\ restarts >= 1
    /\ pc = "send"
    /\ ~cur.db_error
    /\ ~cur.is_returning
    /\ db[CurHash].visit_count = 2
    /\ db[CurHash].total_detections = 3

\* C12: every row of the devices table has
\* total_detections >= visit_count >= 1.
C12_CountsOrdered ==
    \A h \in DOMAIN db :
        /\ db[h].visit_count >= 1
        /\ db[h].total_detections >= db[h].visit_count

\* every sample of the identity opened a new visit
C12_Witness ==
    \E h \in DOMAIN db :
        /\ db[h].visit_count = 3
        /\ db[h].total_detections = 3

\* columns of the devices table that hold text
TextColumns == {"mac_address", "device_type"}

\* C13 (as claimed): no column of a stored row holds a raw hardware
\* address.
C13_NoRawMacStored ==
    \A h \in DOMAIN db :
        \A c \in DOMAIN db[h] \cap TextColumns : db[h][c] \notin Macs

\* C15: the detections table only grows at its end, by exactly one row per
\* stored sample and by nothing else, and no row of the devices table is
\* ever removed.
C15_LogAppendOnly ==
    [][ /\ Len(detections') >= Len(detections)
        /\ SubSeq(detections', 1, Len(detections)) = detections
        /\ DOMAIN db \subseteq DOMAIN db'
        /\ IF IsSaveStep /\ ~cur'.db_error
           THEN /\ Len(detections') = Len(detections) + 1
                /\ detections'[Len(detections')].mac_hash = CurHash
           ELSE detections' = detections ]_vars

\* the process was restarted on a database that holds rows, and stored a
\* further sample
C15_Witness ==
    /\ restarts >= 1
    /\ pc = "send"
    /\ ~cur.db_error
    /\ Len(detections) = 3
    /\ scan_count = 1

ValidDistances(h) ==
    { detections[i].distance : i \in
        { j \in DetectionsOf(h) : detections[j].distance >= 0 } }

MinOf(S) == CHOOSE x \in S : \A y \in S : x <= y

\* C16 (as claimed): min_distance never is the sentinel of an unmeasurable
\* sample, and equals the smallest valid distance observed for the identity.
C16_MinDistanceValid ==
    variant = "rpi" =>
        \A h \in DOMAIN db :
            /\ db[h].min_distance # calculate_distance(0)
            /\ ValidDistances(h) # {}
                  => db[h].min_distance = MinOf(ValidDistances(h))

\* C17 (as claimed): a stored sample of a known identity leaves the row
\* with the display name and the category of that sample.
C17_NameAndTypeOverwritten ==
    [][ ( /\ IsSaveStep
          /\ ~cur'.db_error
          /\ CurHash \in DOMAIN db )
        => /\ db'[CurHash].device_name = cur.name
           /\ db'[CurHash].device_type = cur.type ]_vars

\* C18: in the Raspberry Pi scanner a sample whose name contains holy-iot
\* in any capitalisation makes send_scanner_event return without a request
\* and without touching sent_events.
C18_ExcludedNameNoEffect ==
    [][ ( /\ IsSendStep
          /\ variant = "rpi"
          /\ Contains(Lower(cur.name), HolyIOTLower) )
        => /\ posts' = posts
           /\ sent_events' = sent_events ]_vars

\* an identity whose only samples carried the excluded name went through
\* send_scanner_event and has no entry in sent_events
C18_Witness ==
    /\ variant = "rpi"
    /\ restarts = 0
    /\ cur = NoSample
    /\ \E h \in DOMAIN db :
          /\ db[h].device_name = NameHolyIOT
          /\ db[h].total_detections = 1
          /\ h \notin DOMAIN sent_events

\* C19 (as claimed): a failed delivery never blocks the transition for
\* good: while a transition of an identity has been attempted but not
\* acknowledged, every further sample with that transition makes a request,
\* and a request the collector acknowledges sets the flag.
C19_FailureNeverBlocksDelivery ==
    [][ ( /\ IsSendStep
          /\ ~Excluded(variant, cur.name)
          /\ PostsOf(CurHash, Transition(cur.is_returning)) # {}
          /\ AckedPosts(CurHash, Transition(cur.is_returning)) = {} )
        => /\ Len(posts') = Len(posts) + 1
           /\ posts'[Len(posts')].deviceId = CurHash
           /\ posts'[Len(posts')].status = "ack"
                => sent_events'[CurHash]
                     = MarkSent(sent_events[CurHash],
                                Transition(cur.is_returning)) ]_vars

\* C20: whatever the outcome of the request, send_scanner_event returns to
\* the loop over the scanner output: the exception never leaves it, the
\* batch is never cut short.
C20_FailureStaysInside ==
    [][ ( pc = "send" /\ restarts' = restarts ) => pc' = "scanning" ]_vars

\* the first request of the process raised; the same batch went on with a
\* second stored sample and the scheduler is in its second cycle
C20_Witness ==
    /\ restarts = 0
    /\ scan_count = 2
    /\ Len(posts) >= 1
    /\ posts[1].status = "error"
    /\ Len(detections) >= 2
    /\ detections[1].scan_number = 1
    /\ detections[2].scan_number = 1

----------------------------------------------------------------------------
\* C14 (as claimed): two concurrent save_to_database calls for the same
\* identity lose no update: the lookup-then-write sequence of one call is
\* never interleaved with that of the other, and once both have returned
\* both samples are counted in total_detections, both are logged, and a
\* first-ever sample is attributed to exactly one of the calls.
InLookupThenWrite(p) == callers[p].pc \in {"selected", "written", "logged"}

SameIdentity == callers["p1"].line[1] = callers["p2"].line[1]

BothReturned == \A p \in Procs : callers[p].pc = "done"

C14_ConcurrentSavesLoseNothing ==
    SameIdentity =>
        /\ ~(InLookupThenWrite("p1") /\ InLookupThenWrite("p2"))
        /\ BothReturned =>
              /\ Len(detections) = samples
              /\ CallHash("p1") \in DOMAIN db
              /\ db[CallHash("p1")].total_detections
                   = Cardinality(DetectionsOf(CallHash("p1")))
              /\ samples = 2 =>
                   Cardinality({ p \in Procs : callers[p].result = << >> }) = 1

----------------------------------------------------------------------------
\* C26: a statistics query that succeeds reports as 'returning visitors'
\* the number of device rows with visit_count > 1 of the tables it reads,
\* in get_visitor_stats and in get_statistics alike.
VisitCounts == { db[h].visit_count : h \in DOMAIN db }

ReturningRows == { h \in DOMAIN db : db[h].visit_count > 1 }

C26_ReturningVisitors ==
    \A i \in DOMAIN observed :
        observed[i].ok =>
            /\ observed[i].query = "get_visitor_stats" =>
                  observed[i].returning = Cardinality(ReturningRows)
            /\ observed[i].query = "get_statistics" =>
                  observed[i].returning_visitors = Cardinality(ReturningRows)

\* three devices with visit counts 1, 2 and 3: the statistic is 2
C26_Witness ==
    /\ Cardinality(DOMAIN db) = 3
    /\ VisitCounts = {1, 2, 3}
    /\ observed # << >>
    /\ observed[1].ok
    /\ observed[1].query = "get_statistics"
    /\ observed[1].returning_visitors = 2

----------------------------------------------------------------------------
\* C28: calculate_distance returns the sentinel -1 for rssi = 0 whatever
\* the measured power and the path-loss exponent, and a value >= 0 for
\* every other rssi.
DistanceCalls ==
    { i \in DOMAIN calc : calc[i].fn = "calculate_distance" }

C28_SentinelOnlyForZero ==
    \A i \in DistanceCalls :
        /\ calc[i].rssi = 0 => calc[i].distance = -100
        /\ calc[i].rssi # 0 => calc[i].distance >= 0

C28_Witness ==
    /\ DistanceCalls # {}
    /\ calc[1].rssi = 0
    /\ calc[1].measured_power # MEASURED_POWER
    /\ calc[1].path_loss_exponent # PATH_LOSS_EXPONENT
    /\ calc[1].distance = -100

----------------------------------------------------------------------------
\* C29: with the measured power and the path-loss exponent held fixed, a
\* stronger signal never gives a larger estimate: for rssi values
\* r1 < r2, both different from 0,
\* calculate_distance(r1) >= calculate_distance(r2).
C29_DistanceMonotone ==
    \A i \in DistanceCalls :
        \A r2 \in RssiRange :
            (calc[i].rssi # 0 /\ r2 # 0 /\ calc[i].rssi < r2) =>
                calc[i].distance
                  >= calculate_distance_for(r2, calc[i].measured_power,
                                            calc[i].path_loss_exponent)

\* a weak signal whose estimate is strictly larger than that of the
\* reference signal at one metre
C29_Witness ==
    /\ DistanceCalls # {}
    /\ calc[1].rssi = -75
    /\ calc[1].measured_power = MEASURED_POWER
    /\ calc[1].path_loss_exponent = PATH_LOSS_EXPONENT
    /\ calc[1].distance = 631
    /\ calculate_distance(MEASURED_POWER) = 100

----------------------------------------------------------------------------
\* C30 (as claimed): get_distance_accuracy maps every distance to exactly
\* one bucket: d <= 0 unknown (d = 0.0 included), 0 < d <= 1 very close,
\* 1 < d <= 3 close, 3 < d <= 10 medium, d > 10 far.
BucketOfClaim(d) ==
    IF d <= 0 THEN AccuracyUnknown
    ELSE IF d <= 100 THEN AccuracyVeryClose
    ELSE IF d <= 300 THEN AccuracyClose
    ELSE IF d <= 1000 THEN AccuracyMedium
    ELSE AccuracyFar

----------------------------------------------------------------------------
\* C25: a process restart leaves every device row and every detection log
\* entry unchanged and resets the process-local state only: no delivery
\* flag is left and the cycle counter is 0.  (That a 'new device' delivery
\* may then happen again for a stored identity is shown by C25_Witness.)
C25_RestartResetsLocalStateOnly ==
    [][ restarts' # restarts =>
          /\ db' = db
          /\ detections' = detections
          /\ sent_events' = << >>
          /\ scan_count' = 0 ]_vars

\* AA:AA was stored in scan 1 of the first process; the restarted process
\* sees it again within the return window, in its own scan 1, and its
\* 'new device' request is acknowledged
C25_Witness ==
    /\ restarts = 1
    /\ Len(detections) = 2
    /\ detections[1].mac_hash = IdA /\ detections[2].mac_hash = IdA
    /\ detections[1].scan_number = 1 /\ detections[2].scan_number = 1
    /\ detections[1].detection_time # detections[2].detection_time
    /\ db[IdA].visit_count = 1
    /\ Len(posts) = 1
    /\ posts[1].deviceId = IdA
    /\ posts[1].event_type = "new_device"
    /\ posts[1].status = "ack"

----------------------------------------------------------------------------
\* C23: whatever ends a save_to_database call early (cancellation or a
\* storage failure, at any statement), the tables hold all effects of a
\* sample or none: every device row counts exactly the detections logged
\* for it, and every log entry belongs to a stored row.
C23_SampleAllOrNothing ==
    /\ \A h \in DOMAIN db :
          db[h].total_detections = Cardinality(DetectionsOf(h))
    /\ \A i \in DOMAIN detections : detections[i].mac_hash \in DOMAIN db

\* one call was cancelled after its device write, the other failed at its
\* commit
C23_Witness ==
    /\ callers["p1"].pc = "done"
    /\ callers["p1"].error = "SystemExit"
    /\ callers["p1"].at = "written"
    /\ callers["p2"].pc = "done"
    /\ callers["p2"].error = "StorageError"
    /\ callers["p2"].at = "logged"

----------------------------------------------------------------------------
\* C27: a query that runs while save_to_database calls are in progress
\* reads the tables as committed: its result never contains a device row
\* or a log entry of a transaction that is still open.
C27_QuerySeesCommittedState ==
    [][ Len(observed') = Len(observed) + 1 =>
          LET answer == observed'[Len(observed')]
          IN  /\ answer.query = "devices" =>
                    answer.value = Cardinality(DOMAIN db)
              /\ answer.query = "detections" =>
                    answer.value = Len(detections) ]_vars

\* both queries ran while a call held a device row without (first query)
\* and with (second query) its log entry, and saw neither
C27_Witness ==
    /\ Len(observed) = 2
    /\ observed[1].in_progress = {"p1"}
    /\ observed[2].in_progress = {"p1"}
    /\ callers["p1"].pc = "logged"
    /\ callers["p1"].result = << >>
    /\ observed[1].value = 0
    /\ observed[2].value = 0

----------------------------------------------------------------------------
\* C21: when a scanner tool fails or times out, nothing of that fetch
\* reaches the program: the tables, the delivery flags and the requests
\* made are as before, no sample is processed, and the loop goes on (to the
\* next path of the cycle or to the statistics and the sleep before the
\* next cycle).
IsFailedFetch == pc = "fetch" /\ failures' = failures + 1

----------------------------------------------------------------------------
\* C22 (as claimed): SIGINT takes effect between scan cycles only: the
\* process stops from the end of a cycle or from the sleep, and a sample
\* that has been handed to save_to_database is saved and passed to
\* send_scanner_event before anything else happens.
C22_CancelBetweenCyclesOnly ==
    [][ /\ pc' = "exited" => pc \in {"stats", "idle"}
        /\ pc = "save" => pc' = "send"
        /\ pc = "send" => pc' = "scanning" ]_vars

----------------------------------------------------------------------------
\* C24 (as claimed): within one scan cycle an identity is recorded (and so
\* passed to send_scanner_event) at most once, whichever scan paths
\* report it.
C24_OncePerCycle ==
    \A i, j \in DOMAIN detections :
        (/\ i # j
         /\ detections[i].mac_hash = detections[j].mac_hash)
            => detections[i].scan_number # detections[j].scan_number

----------------------------------------------------------------------------
\* C31: classify_device is total and case-insensitive: every display name
\* gets exactly one category, the first one in the order phone, audio,
\* computer, watch, tv, car whose keyword list has a keyword occurring in
\* the lower-cased name, and "other" when no keyword occurs or the name is
\* empty; two names that differ in letter case only get the same category.
CategoryOrder(v) ==
    IF v = "simple"
    THEN << <<TypePhone, SimplePhoneKeywords>>,
            <<TypeAudio, SimpleAudioKeywords>>,
            <<TypeComputer, SimpleComputerKeywords>>,
            <<TypeWatch, SimpleWatchKeywords>> >>
    ELSE << <<TypePhone, RpiPhoneKeywords>>,
            <<TypeAudio, RpiAudioKeywords>>,
            <<TypeComputer, RpiComputerKeywords>>,
            <<TypeWatch, RpiWatchKeywords>>,
            <<TypeTv, RpiTvKeywords>>,
            <<TypeCar, RpiCarKeywords>> >>

MatchingCategories(v, name) ==
    { k \in DOMAIN CategoryOrder(v) :
        \E j \in DOMAIN CategoryOrder(v)[k][2] :
            Contains(Lower(name), CategoryOrder(v)[k][2][j]) }

ClassifyCalls ==
    { i \in DOMAIN calc : calc[i].fn = "classify_device" }

C31_FirstMatchingCategory ==
    \A i \in ClassifyCalls :
        LET matching == MatchingCategories(variant, calc[i].name) IN
        /\ calc[i].device_type \in {TypePhone, TypeAudio, TypeComputer,
                                     TypeWatch, TypeTv, TypeCar, TypeOther}
        /\ matching = {} => calc[i].device_type = TypeOther
        /\ matching # {} =>
              calc[i].device_type = CategoryOrder(variant)[MinOf(matching)][1]
        /\ calc[i].name = << >> => calc[i].device_type = TypeOther
        /\ \A other \in ClassifyNames :
              Lower(other) = Lower(calc[i].name) =>
                  classify_device(variant, other) = calc[i].device_type

\* a mixed-case name with keywords of two categories gets the earlier one
C31_Witness ==
    /\ ClassifyCalls # {}
    /\ calc[1].name = NameGalaxyBuds
    /\ MatchingCategories(variant, calc[1].name) = {1, 2}
    /\ calc[1].device_type = TypePhone

----------------------------------------------------------------------------
\* C32: hash_mac_address is deterministic and state-independent: the same
\* raw identifier gets the same identity on every call, in every process
\* run and whatever the ledger and the delivery flags hold, so every row,
\* every log entry and every delivery flag of one raw identifier is kept
\* under one identity.
RawOf(identity) == identity[2]

RecordedIdentities ==
    DOMAIN db \cup { detections[i].mac_hash : i \in DOMAIN detections }
              \cup DOMAIN sent_events

C32_OneIdentityPerRawIdentifier ==
    /\ \A h \in RecordedIdentities :
          h = hash_mac_address(variant, RawOf(h))
    /\ \A h1, h2 \in RecordedIdentities : RawOf(h1) = RawOf(h2) => h1 = h2
    /\ pc = "send" => \/ cur.db_error
                      \/ hash_mac_address(variant, cur.mac) \in DOMAIN db

\* three samples of one raw identifier, before and after a restart, are
\* all in the log under the one identity
C32_Witness ==
    /\ restarts = 1
    /\ pc = "send"
    /\ cur.mac = "AA:AA"
    /\ DOMAIN db = {IdA}
    /\ Cardinality(DetectionsOf(IdA)) = 3
    /\ detections[1].scan_number = 1
    /\ detections[3].scan_number = 1
    /\ db[IdA].total_detections = 3

----------------------------------------------------------------------------
\* C33 (as claimed): a path-loss exponent <= 0 is rejected at startup,
\* before the first scan cycle: main never enters run_continuous_scan with
\* such an exponent, so no sample is processed with it.
C33_InvalidCalibrationRejected ==
    \A i \in DOMAIN calc :
        ( calc[i].fn = "main" /\ calc[i].path_loss_exponent <= 0 )
            => ~calc[i].running

----------------------------------------------------------------------------
\* C34: in every committed ledger state, every identity has as many
\* detection log entries as its row's total_detections says, every log
\* entry belongs to a row, and the extractor's total_detections statistic
\* (the row count of the log) is the sum of total_detections over all rows.
RECURSIVE SumOfTotals(_, _)
SumOfTotals(rows, identities) ==
    IF identities = {} THEN 0
    ELSE LET h == CHOOSE x \in identities : TRUE
         IN  rows[h].total_detections + SumOfTotals(rows, identities \ {h})

C34_LogMatchesTotals ==
    /\ \A h \in DOMAIN db :
          Cardinality(DetectionsOf(h)) = db[h].total_detections
    /\ \A i \in DOMAIN detections : detections[i].mac_hash \in DOMAIN db
    /\ get_statistics(db, detections, now, TRUE).total_detections
          = SumOfTotals(db, DOMAIN db)

\* two identities with two detections and one detection in the log
C34_Witness ==
    /\ Cardinality(DOMAIN db) = 2
    /\ db[IdA].total_detections = 2
    /\ Cardinality(DetectionsOf(IdA)) = 2
    /\ get_statistics(db, detections, now, TRUE).total_detections = 3
    /\ pc = "scanning"

----------------------------------------------------------------------------
\* C35 (as claimed): within one process session, no new_device delivery is
\* attempted for an identity after a returning_device delivery has been
\* attempted for it.
C35_NoNewAfterReturning ==
    \A i \in DOMAIN posts, j \in DOMAIN posts :
        ( /\ i < j
          /\ posts[i].deviceId = posts[j].deviceId
          /\ posts[i].event_type = "returning_device" )
            => posts[j].event_type # "new_device"

----------------------------------------------------------------------------
\* C36 (as claimed): every result of a statistics query has
\* returning <= total and today <= total, also when save_to_database calls
\* of a running scanner commit between the separate SELECT statements of
\* the query.
VisitorStatsDone ==
    /\ Len(observed) = 3
    /\ observed[1].query = "devices"
    /\ observed[2].query = "returning"
    /\ observed[3].query = "today"

C36_StatsCountsOrdered ==
    VisitorStatsDone =>
        /\ observed[2].value <= observed[1].value
        /\ observed[3].value <= observed[1].value

----------------------------------------------------------------------------
\* C37: in SimpleBluetoothScanner a scanned device whose category is not
\* phone is dropped before the ledger: the step that reads its line leaves
\* the rows, the log, the delivery flags and the requests as they are, no
\* sample of another category is ever in save_to_database or
\* send_scanner_event, and no row has another category.
C37_OnlyPhonesReachLedger ==
    [][ variant = "simple" =>
          /\ ( samples' = samples + 1 /\ pc' # "save" ) =>
                /\ db' = db
                /\ detections' = detections
                /\ sent_events' = sent_events
                /\ posts' = posts
                /\ cur' = cur
          /\ pc' \in {"save", "send"} => cur'.type = TypePhone
          /\ \A h \in DOMAIN db' : db'[h].device_type = TypePhone ]_vars

\* two lines were read in the first cycle, the phone of AA:AA was stored
\* and delivered, the other line left nothing
C37_Witness ==
    /\ variant = "simple"
    /\ restarts = 0
    /\ samples = 2
    /\ pc = "scanning"
    /\ scan_count = 1
    /\ DOMAIN db = {IdA}
    /\ Len(detections) = 1
    /\ Len(posts) = 1
    /\ failures = 0

----------------------------------------------------------------------------
\* C38: first_seen of a device row is set once, to the time of the sample
\* that creates the row, and no later step (a sample of the identity, a
\* failed save or delivery, a restart) changes it or removes the row.
C38_FirstSeenFixed ==
    [][ /\ \A h \in DOMAIN db :
              /\ h \in DOMAIN db'
              /\ db'[h].first_seen = db[h].first_seen
        /\ \A h \in DOMAIN db' \ DOMAIN db :
              db'[h].first_seen = isoformat(now) ]_vars

\* after a restart and a failure the identity has made a second visit and
\* its row still carries the time of its first sample
C38_Witness ==
    /\ restarts = 1
    /\ failures >= 1
    /\ IdA \in DOMAIN db
    /\ db[IdA].visit_count = 2
    /\ db[IdA].first_seen = isoformat(0)
    /\ db[IdA].last_seen # db[IdA].first_seen
    /\ detections[1].detection_time = db[IdA].first_seen

====
